---- MODULE Spec2Model ----
(***************************************************************************)
(* Model of the foodgram backend: the recipe aggregate (create, update,    *)
(* delete with line items and tags), the membership sets (favorites and    *)
(* shopping cart), the shopping-list export, the recipe projection and the *)
(* subscriptions, as request handlers that issue their store statements    *)
(* one after the other.                                                    *)
(***************************************************************************)
EXTENDS Integers, Sequences, FiniteSets, Bags, TLC

(* ------------------------------ bounds --------------------------------- *)
NumUsers == 2
NumIngredients == 2
NumTags == 2
MaxRecipes == 2
MaxLive == 1
MaxDraftLen == 2
NumWorkers == 2

Users == 1..NumUsers
IngredientIds == 1..NumIngredients
TagIds == 1..NumTags
Workers == 1..NumWorkers
RecipeIds == 1..MaxRecipes

(* ------------------------- program constants --------------------------- *)
\* Recipe.name = CharField(max_length=255)
NameMaxLength == 255
\* RecipeCreateSerializer.validate: len(name) > 256
ValidateNameLimit == 256
\* RecipeIngredient.amount = PositiveSmallIntegerField: largest value of the column
SmallIntMax == 32767

\* the two membership tables: FavoriteRecipe and ShoppingItem
Kinds == {"favorite", "shopping_cart"}

\* the database backends a deployment may use; only one enforces the range
\* of a PositiveSmallIntegerField column
Backends == {"postgresql", "sqlite"}

(* ------------------------------ catalog -------------------------------- *)
\* Ingredient rows (name is unique); never written by the handlers
IngredientName(i) == IF i = 1 THEN "Flour" ELSE IF i = 2 THEN "Egg" ELSE "Milk"
IngredientUnit(i) == IF i = 1 THEN "g" ELSE IF i = 2 THEN "pc" ELSE "ml"

(* ------------------------------- drafts -------------------------------- *)
Range(s) == {s[k] : k \in DOMAIN s}

SeqsUpTo(S, n) == UNION {[1..k -> S] : k \in 0..n}

\* ids a payload may name: the catalog's and one that is not in the catalog
DraftIngredientIds == 1..(NumIngredients + 1)
DraftTagIds == 1..(NumTags + 1)
DraftAmounts == {0, 1, 2, SmallIntMax + 1}
DraftNames == {1, NameMaxLength, ValidateNameLimit, ValidateNameLimit + 1}
DraftCookingTimes == {0, 1, 2}

DraftItems == [id : DraftIngredientIds, amount : DraftAmounts]

\* a payload key is either absent (has = FALSE, v the default) or carries a value
Opt(S, default) == {[has |-> FALSE, v |-> default]} \cup {[has |-> TRUE, v |-> x] : x \in S}

\* the well-formed values of the scalar keys, of tags and of ingredients
GoodScalars == [image : {[has |-> TRUE, v |-> TRUE]},
                name : {[has |-> TRUE, v |-> NameMaxLength]},
                cooking_time : {[has |-> TRUE, v |-> 1]}]
GoodTags == {[has |-> TRUE, v |-> <<1>>]}
GoodIngredients == {[has |-> TRUE, v |-> <<[id |-> 1, amount |-> 1]>>]}

AnyScalars == [image : Opt({TRUE}, FALSE),
               name : Opt(DraftNames, 0),
               cooking_time : Opt(DraftCookingTimes, 0)]
AnyTags == Opt(SeqsUpTo(DraftTagIds, MaxDraftLen), <<>>)
AnyIngredients == Opt(SeqsUpTo(DraftItems, MaxDraftLen), <<>>)

MakeDrafts(scalars, tags, ingredients) ==
    {[image |-> s.image, name |-> s.name, cooking_time |-> s.cooking_time,
      tags |-> t, ingredients |-> i] : s \in scalars, t \in tags, i \in ingredients}

\* the payloads of recipe requests: every value of one part of the payload
\* (scalar keys, tags, ingredients) beside well-formed values of the other parts
Drafts ==
    MakeDrafts(AnyScalars, GoodTags, GoodIngredients)
    \cup MakeDrafts(GoodScalars, AnyTags, GoodIngredients)
    \cup MakeDrafts(GoodScalars, GoodTags, AnyIngredients)

ItemIds(items) == [k \in DOMAIN items |-> items[k].id]

\* the (ingredient id, amount) pairs of a list of items
ItemSet(items) == {<<items[k].id, items[k].amount>> : k \in DOMAIN items}

\* Ingredient.objects.filter(id__in=ingredient_ids): the catalog rows whose id is listed
ExistingIngredients(ids) == {i \in IngredientIds : i \in Range(ids)}

(* ----------------------------- validation ------------------------------ *)
\* RecipeCreateSerializer.validate_ingredients
validate_ingredients(value) ==
    IF Len(value) = 0 THEN FALSE
    ELSE Cardinality(ExistingIngredients(ItemIds(value))) = Len(value)

\* PrimaryKeyRelatedField(queryset=Category.objects.all(), many=True)
TagsFieldValid(value) ==
    /\ Len(value) > 0
    /\ \A k \in DOMAIN value : value[k] \in TagIds

\* the fields of RecipeCreateSerializer that fail their own validation;
\* a missing key is an error unless the serializer is partial
FieldErrors(d, partial) ==
    {f \in {"image"} : IF d.image.has THEN ~d.image.v ELSE ~partial}
    \cup {f \in {"name"} : IF d.name.has THEN d.name.v > NameMaxLength ELSE ~partial}
    \cup {f \in {"cooking_time"} : IF d.cooking_time.has THEN d.cooking_time.v < 0 ELSE ~partial}
    \cup {f \in {"tags"} : IF d.tags.has THEN ~TagsFieldValid(d.tags.v) ELSE ~partial}
    \cup {f \in {"ingredients"} :
            IF d.ingredients.has THEN ~validate_ingredients(d.ingredients.v) ELSE ~partial}

\* RecipeCreateSerializer.validate: the first failing check names the field, "ok" if none
validate(d) ==
    IF ~(d.image.has /\ d.image.v) THEN "image"
    ELSE IF (IF d.name.has THEN d.name.v ELSE 0) > ValidateNameLimit THEN "name"
    ELSE IF ~d.ingredients.has \/ Len(d.ingredients.v) = 0 THEN "ingredients"
    ELSE IF ~d.tags.has \/ Len(d.tags.v) = 0 THEN "tags"
    ELSE IF Len(d.tags.v) # Cardinality(Range(d.tags.v)) THEN "tags"
    ELSE IF Cardinality(ExistingIngredients(ItemIds(d.ingredients.v)))
                # Len(d.ingredients.v) THEN "ingredients"
    ELSE IF \E k \in DOMAIN d.ingredients.v : d.ingredients.v[k].amount <= 0 THEN "ingredients"
    ELSE IF (IF d.cooking_time.has THEN d.cooking_time.v ELSE 0) < 1 THEN "cooking_time"
    ELSE "ok"

\* RecipeCreateSerializer.is_valid: field validation first, then validate()
IsValidCreate(d, partial) ==
    IF FieldErrors(d, partial) # {} THEN "fields" ELSE validate(d)

\* RecipeSerializer.is_valid: tags and ingredients are read-only there, so only
\* name, image and cooking_time (with validate_cooking_time) are checked
IsValidRead(d) ==
    /\ d.image.has /\ d.image.v
    /\ d.name.has /\ d.name.v <= NameMaxLength
    /\ d.cooking_time.has /\ d.cooking_time.v >= 1

(* ------------------------------- state --------------------------------- *)
VARIABLES
    backend,      \* the database backend of the deployment
    recipes,      \* Recipe table: id -> [author, name, cooking_time]
    nextId,       \* next primary key of the Recipe table
    recipeTags,   \* Recipe.tags through table: set of <<recipe, tag>>
    lineItems,    \* RecipeIngredient table: set of [recipe, ingredient, amount]
    member,       \* FavoriteRecipe and ShoppingItem tables: kind -> bag of <<user, recipe>>
    req,          \* per worker: the request it is handling and where it is in the handler
    resp,         \* per worker: the last response it sent
    written,      \* history: recipe id -> the request that last wrote its line items
    subs,         \* UserSubscription table: bag of <<subscriber, author>>
    lastCart      \* history: the last change of a shopping cart, <<user, method, recipe>>

vars == <<backend, recipes, nextId, recipeTags, lineItems, member, req, resp, written,
          subs, lastCart>>

store == <<recipes, recipeTags, lineItems, member>>

Idle == [pc |-> "idle"]

NoResp == [op |-> "none", status |-> 0, detail |-> "", user |-> 0, recipe |-> 0,
           flags |-> {}, sent |-> {}, tags |-> {}, body |-> {}, bodyTags |-> {},
           had |-> {}, hadTags |-> {}, hadFrom |-> "", lines |-> EmptyBag,
           entries |-> EmptyBag, is_favorited |-> FALSE, is_in_shopping_cart |-> FALSE,
           author |-> 0]

Response(op, status, detail, user, recipe) ==
    [NoResp EXCEPT !.op = op, !.status = status, !.detail = detail,
                   !.user = user, !.recipe = recipe]

\* what the payload of a recipe request looked like, kept with the response
DraftFlags(d) ==
    {f \in {"dup_ingredients"} :
        d.ingredients.has /\ Len(d.ingredients.v) # Cardinality(Range(ItemIds(d.ingredients.v)))}
    \cup {f \in {"dup_tags"} : d.tags.has /\ Len(d.tags.v) # Cardinality(Range(d.tags.v))}
    \cup {f \in {"no_ingredients"} : ~d.ingredients.has}
    \cup {f \in {"no_tags"} : ~d.tags.has}
    \cup {f \in {"no_name"} : ~d.name.has}
    \cup {f \in {"valid_draft"} : IsValidCreate(d, FALSE) = "ok"}
    \cup {f \in {"name_at_limit"} : d.name.has /\ d.name.v = ValidateNameLimit}
    \cup {f \in {"name_over_limit"} : d.name.has /\ d.name.v > ValidateNameLimit}
    \cup {f \in {"valid_but_name"} :
            IsValidCreate([d EXCEPT !.name = [has |-> TRUE, v |-> 1]], FALSE) = "ok"}

Init ==
    /\ backend \in Backends
    /\ recipes = <<>>
    /\ nextId = 1
    /\ recipeTags = {}
    /\ lineItems = {}
    /\ member = [k \in Kinds |-> EmptyBag]
    /\ req = [p \in Workers |-> Idle]
    /\ resp = [p \in Workers |-> NoResp]
    /\ written = <<>>
    /\ subs = EmptyBag
    /\ lastCart = <<>>

(* --------------------------- store statements -------------------------- *)
\* rows of the RecipeIngredient table that belong to recipe r
ItemsOf(table, r) == {li \in table : li.recipe = r}

\* RecipeSerializer.get_ingredients: the (id, amount) pairs read back for a recipe
get_ingredients(table, r) == {<<li.ingredient, li.amount>> : li \in ItemsOf(table, r)}

TagsOf(table, r) == {rt[2] : rt \in {x \in table : x[1] = r}}

\* RecipeIngredient.objects.bulk_create(...): the statement is refused when a row
\* breaks the foreign keys, the unique (recipe, ingredient) constraint, or the
\* range of the amount column on a backend that enforces it
BulkCreateRefused(r, items) ==
    \/ r \notin DOMAIN recipes
    \/ \E k \in DOMAIN items : items[k].id \notin IngredientIds
    \/ \E k \in DOMAIN items : \E li \in ItemsOf(lineItems, r) : li.ingredient = items[k].id
    \/ Len(items) # Cardinality(Range(ItemIds(items)))
    \/ /\ backend = "postgresql"
       /\ \E k \in DOMAIN items : items[k].amount > SmallIntMax

\* a bulk_create that keeps only the first object of the list
BulkCreateRowsFirstOnly(r, items) ==
    {[recipe |-> r, ingredient |-> items[k].id, amount |-> items[k].amount] :
        k \in {j \in DOMAIN items : j = 1}}

\* RecipeIngredient.objects.bulk_create([...]): one row per item of the list
BulkCreateRows(r, items) ==
    {[recipe |-> r, ingredient |-> items[k].id, amount |-> items[k].amount] : k \in DOMAIN items}

\* instance.tags.set(tags): one atomic replacement of the recipe's tag rows
TagsSet(table, r, tags) ==
    {rt \in table : rt[1] # r} \cup {<<r, t>> : t \in Range(tags)}

\* Model.objects.create on a membership table with unique_together (user, recipe)
\* and a foreign key to Recipe
MemberInsertRefused(kind, u, r) ==
    \/ r \notin DOMAIN recipes
    \/ BagIn(<<u, r>>, member[kind])

\* the exists() test with the filter on the recipe alone
ExistsForAnyUser(kind, u, r) == \E v \in Users : BagIn(<<v, r>>, member[kind])

\* FavoriteRecipe.objects.filter(user=..., recipe=...).exists()
Exists(kind, u, r) == BagIn(<<u, r>>, member[kind])

\* a delete() that removes no row
MemberDeleteNone(bag, u, r) == bag

\* queryset.delete(): removes every row of the pair
MemberDelete(bag, u, r) ==
    [e \in (BagToSet(bag) \ {<<u, r>>}) |-> bag[e]]

\* a Recipe.delete() that leaves the membership rows of the recipe behind
CascadeMemberNone(bag, r) == bag

\* Recipe.delete(): cascades over every foreign key to the recipe
CascadeMember(bag, r) ==
    [e \in {x \in BagToSet(bag) : x[2] # r} |-> bag[e]]

Without(f, r) == [x \in (DOMAIN f \ {r}) |-> f[x]]

(* ------------------------------ requests ------------------------------- *)
\* a worker takes a request when it is idle; unless c (concurrent requests),
\* the first worker serves every request, one at a time
CanBegin(p, c) ==
    /\ req[p].pc = "idle"
    /\ c \/ p = 1

Reply(p, r) ==
    /\ resp' = [resp EXCEPT ![p] = r]
    /\ req' = [req EXCEPT ![p] = Idle]

(* ------------------ what validation makes of the payloads -------------- *)
\* is_valid of RecipeCreateSerializer over the payloads: the payloads it passes on
\* to create() or update(), and the error responses of the others
CreateAccepted == {d \in Drafts : IsValidCreate(d, FALSE) = "ok"}
CreateRejected ==
    {[detail |-> IsValidCreate(d, FALSE), flags |-> DraftFlags(d)] : d \in Drafts \ CreateAccepted}
PartialAccepted == {d \in Drafts : IsValidCreate(d, TRUE) = "ok"}
PartialRejected ==
    {[detail |-> IsValidCreate(d, TRUE), flags |-> DraftFlags(d)] : d \in Drafts \ PartialAccepted}
\* is_valid of RecipeSerializer over the payloads, with the flags of each
ReadChecked ==
    {[valid |-> IsValidRead(d), flags |-> DraftFlags(d),
      items |-> ItemSet(d.ingredients.v), tags |-> Range(d.tags.v)] : d \in Drafts}

(* --------------------------- recipe handlers --------------------------- *)
\* a permission check that lets every authenticated user through
has_object_permission_any(u, r) == TRUE

\* IsRecipeAuthorOrReadOnly.has_object_permission for an unsafe method:
\* obj.author == request.user
has_object_permission(u, r) == recipes[r].author = u

\* POST /recipes/: RecipeCreateSerializer.is_valid, then the first statement of
\* RecipeCreateSerializer.create, Recipe.objects.create(**validated_data)
create(p, c) ==
    /\ CanBegin(p, c)
    /\ \/ \E e \in CreateRejected :
             /\ Reply(p, [Response("create", 400, e.detail, 0, 0) EXCEPT !.flags = e.flags])
             /\ UNCHANGED <<subs, lastCart, written, backend, recipes, nextId, recipeTags, lineItems, member>>
       \/ \E u \in Users, d \in CreateAccepted :
             /\ nextId <= MaxRecipes
             /\ Cardinality(DOMAIN recipes) < MaxLive
             /\ recipes' = (nextId :> [author |-> u, name |-> d.name.v,
                                       cooking_time |-> d.cooking_time.v]) @@ recipes
             /\ nextId' = nextId + 1
             /\ req' = [req EXCEPT ![p] =
                    [pc |-> "create_tags", op |-> "create", user |-> u, recipe |-> nextId,
                     tags |-> d.tags.v, items |-> d.ingredients.v,
                     flags |-> DraftFlags(d), before |-> store]]
             /\ resp' = [resp EXCEPT ![p] = NoResp]
             /\ UNCHANGED <<subs, lastCart, written, backend, recipeTags, lineItems, member>>

\* RecipeCreateSerializer.create: recipe.tags.set(tags)
create_tags(p) ==
    /\ req[p].pc = "create_tags"
    /\ recipeTags' = TagsSet(recipeTags, req[p].recipe, req[p].tags)
    /\ req' = [req EXCEPT ![p].pc = "create_bulk"]
    /\ UNCHANGED <<subs, lastCart, written, backend, recipes, nextId, lineItems, member, resp>>

\* RecipeCreateSerializer.create: RecipeIngredient.objects.bulk_create, then the
\* response built by to_representation (RecipeSerializer reads the rows back)
create_bulk(p) ==
    /\ req[p].pc = "create_bulk"
    /\ LET r == req[p].recipe IN
       IF BulkCreateRefused(r, req[p].items)
       THEN /\ Reply(p, [Response("create", 500, "DatabaseError", 0, r)
                            EXCEPT !.flags = req[p].flags])
            /\ UNCHANGED <<subs, lastCart, written, backend, recipes, nextId, recipeTags, lineItems, member>>
       ELSE /\ lineItems' = lineItems \cup BulkCreateRows(r, req[p].items)
            /\ Reply(p, [Response("create", 201, "", 0, r)
                            EXCEPT !.flags = req[p].flags,
                                   !.sent = ItemSet(req[p].items),
                                   !.tags = Range(req[p].tags),
                                   !.body = get_ingredients(lineItems', r),
                                   !.bodyTags = TagsOf(recipeTags, r)])
            /\ written' = (r :> "create") @@ written
            /\ UNCHANGED <<subs, lastCart, backend, recipes, nextId, recipeTags, member>>

\* PATCH /recipes/{id}/ (RecipeCreateSerializer, partial=True): get_object,
\* the permission check, is_valid, then the first statement of
\* RecipeCreateSerializer.update, instance.tags.set(tags)
partial_update(p, c) ==
    /\ CanBegin(p, c)
    /\ \E u \in Users, r \in RecipeIds :
        IF r \notin DOMAIN recipes
        THEN /\ Reply(p, Response("partial_update", 404, "NotFound", 0, r))
             /\ UNCHANGED <<subs, lastCart, written, backend, recipes, nextId, recipeTags, lineItems, member>>
        ELSE IF ~has_object_permission(u, r)
        THEN /\ Reply(p, Response("partial_update", 403, "PermissionDenied", 0, r))
             /\ UNCHANGED <<subs, lastCart, written, backend, recipes, nextId, recipeTags, lineItems, member>>
        ELSE \/ \E e \in PartialRejected :
                 /\ Reply(p, [Response("partial_update", 400, e.detail, 0, r)
                                EXCEPT !.flags = e.flags])
                 /\ UNCHANGED <<subs, lastCart, written, backend, recipes, nextId, recipeTags, lineItems, member>>
             \/ \E d \in PartialAccepted :
                 /\ recipeTags' = TagsSet(recipeTags, r, d.tags.v)
                 /\ req' = [req EXCEPT ![p] =
                        [pc |-> "update_delete", op |-> "partial_update", user |-> u,
                         recipe |-> r, tags |-> d.tags.v, items |-> d.ingredients.v,
                         instance |-> [recipes[r] EXCEPT
                            !.name = IF d.name.has THEN d.name.v ELSE @,
                            !.cooking_time = d.cooking_time.v],
                         flags |-> DraftFlags(d), before |-> store]]
                 /\ resp' = [resp EXCEPT ![p] = NoResp]
                 /\ UNCHANGED <<subs, lastCart, written, backend, recipes, nextId, lineItems, member>>

\* RecipeCreateSerializer.update: RecipeIngredient.objects.filter(recipe=instance).delete()
update_delete(p) ==
    /\ req[p].pc = "update_delete"
    /\ lineItems' = lineItems \ ItemsOf(lineItems, req[p].recipe)
    /\ req' = [req EXCEPT ![p].pc = "update_bulk"]
    /\ UNCHANGED <<subs, lastCart, written, backend, recipes, nextId, recipeTags, member, resp>>

\* RecipeCreateSerializer.update: RecipeIngredient.objects.bulk_create
update_bulk(p) ==
    /\ req[p].pc = "update_bulk"
    /\ LET r == req[p].recipe IN
       IF BulkCreateRefused(r, req[p].items)
       THEN /\ Reply(p, [Response("partial_update", 500, "DatabaseError", 0, r)
                            EXCEPT !.flags = req[p].flags])
            /\ UNCHANGED <<subs, lastCart, written, backend, recipes, nextId, recipeTags, lineItems, member>>
       ELSE /\ lineItems' = lineItems \cup BulkCreateRows(r, req[p].items)
            /\ req' = [req EXCEPT ![p].pc = "update_save"]
            /\ UNCHANGED <<subs, lastCart, written, backend, recipes, nextId, recipeTags, member, resp>>

\* RecipeCreateSerializer.update: setattr of the remaining validated fields and
\* instance.save() (an UPDATE of the row, an INSERT when the row is gone), then
\* the response built by to_representation
update_save(p) ==
    /\ req[p].pc = "update_save"
    /\ LET r == req[p].recipe IN
       /\ recipes' = (r :> req[p].instance) @@ recipes
       /\ Reply(p, [Response("partial_update", 200, "", 0, r)
                       EXCEPT !.flags = req[p].flags,
                              !.sent = ItemSet(req[p].items),
                              !.tags = Range(req[p].tags),
                              !.had = get_ingredients(req[p].before[3], r),
                              !.hadTags = TagsOf(req[p].before[2], r),
                              !.bodyTags = TagsOf(recipeTags, r),
                              !.hadFrom = IF r \in DOMAIN written THEN written[r] ELSE "",
                              !.body = get_ingredients(lineItems, r)])
       /\ written' = (r :> "partial_update") @@ written
    /\ UNCHANGED <<subs, lastCart, backend, nextId, recipeTags, lineItems, member>>

\* PUT /recipes/{id}/: get_serializer_class gives RecipeSerializer for the action
\* "update"; its update() pops 'ingredients' from validated_data, where a
\* read-only field never is, so every valid payload ends in a KeyError
update(p, c) ==
    /\ CanBegin(p, c)
    /\ \E u \in Users, r \in RecipeIds :
        /\ IF r \notin DOMAIN recipes
           THEN Reply(p, Response("update", 404, "NotFound", 0, r))
           ELSE IF ~has_object_permission(u, r)
           THEN Reply(p, Response("update", 403, "PermissionDenied", 0, r))
           ELSE \E e \in ReadChecked :
                IF ~e.valid
                THEN Reply(p, [Response("update", 400, "fields", 0, r)
                                  EXCEPT !.flags = e.flags])
                ELSE Reply(p, [Response("update", 500, "KeyError", 0, r)
                                  EXCEPT !.flags = e.flags,
                                         !.sent = e.items, !.tags = e.tags,
                                         !.body = get_ingredients(lineItems, r),
                                         !.bodyTags = TagsOf(recipeTags, r)])
        /\ UNCHANGED <<subs, lastCart, written, backend, recipes, nextId, recipeTags, lineItems, member>>

\* DELETE /recipes/{id}/: get_object, the permission check, instance.delete()
\* with the cascade over the foreign keys to the recipe
destroy(p, c) ==
    /\ CanBegin(p, c)
    /\ \E u \in Users, r \in RecipeIds :
        IF r \notin DOMAIN recipes
        THEN /\ Reply(p, Response("destroy", 404, "NotFound", 0, r))
             /\ UNCHANGED <<subs, lastCart, written, backend, recipes, nextId, recipeTags, lineItems, member>>
        ELSE IF ~has_object_permission(u, r)
        THEN /\ Reply(p, Response("destroy", 403, "PermissionDenied", 0, r))
             /\ UNCHANGED <<subs, lastCart, written, backend, recipes, nextId, recipeTags, lineItems, member>>
        ELSE /\ recipes' = Without(recipes, r)
             /\ recipeTags' = {rt \in recipeTags : rt[1] # r}
             /\ lineItems' = lineItems \ ItemsOf(lineItems, r)
             /\ member' = [k \in Kinds |-> CascadeMember(member[k], r)]
             /\ written' = Without(written, r)
             /\ Reply(p, [Response("destroy", 204, "", u, r)
                             EXCEPT !.had = get_ingredients(lineItems, r),
                                    !.flags = {k \in Kinds : \E v \in Users : Exists(k, v, r)}])
             /\ UNCHANGED <<subs, lastCart, backend, nextId>>

(* ------------------------- membership handlers ------------------------- *)
\* favorite / shopping_cart, first part: get_object_or_404(Recipe, id=pk), the
\* filter on (user, recipe) and the exists() test of the request's method; the
\* row is written by a later statement of the handler
toggle(p, c, kind) ==
    /\ CanBegin(p, c)
    /\ \E u \in Users, r \in RecipeIds, method \in {"POST", "DELETE"} :
        IF r \notin DOMAIN recipes
        THEN /\ Reply(p, Response(kind, 404, "NotFound", u, r))
             /\ UNCHANGED <<subs, lastCart, written, backend, recipes, nextId, recipeTags, lineItems, member>>
        ELSE IF method = "POST"
        THEN IF Exists(kind, u, r)
             THEN /\ Reply(p, Response(kind, 400, "AlreadyInSet", u, r))
                  /\ UNCHANGED <<subs, lastCart, written, backend, recipes, nextId, recipeTags, lineItems, member>>
             ELSE /\ req' = [req EXCEPT ![p] =
                        [pc |-> "member_create", kind |-> kind, user |-> u, recipe |-> r]]
                  /\ resp' = [resp EXCEPT ![p] = NoResp]
                  /\ UNCHANGED <<subs, lastCart, written, backend, recipes, nextId, recipeTags, lineItems, member>>
        ELSE IF ~Exists(kind, u, r)
             THEN /\ Reply(p, Response(kind, 400, "NotInSet", u, r))
                  /\ UNCHANGED <<subs, lastCart, written, backend, recipes, nextId, recipeTags, lineItems, member>>
             ELSE /\ req' = [req EXCEPT ![p] =
                        [pc |-> "member_delete", kind |-> kind, user |-> u, recipe |-> r]]
                  /\ resp' = [resp EXCEPT ![p] = NoResp]
                  /\ UNCHANGED <<subs, lastCart, written, backend, recipes, nextId, recipeTags, lineItems, member>>

\* RecipeViewSet.favorite
favorite(p, c) == toggle(p, c, "favorite")

\* RecipeViewSet.shopping_cart
shopping_cart(p, c) == toggle(p, c, "shopping_cart")

\* POST, second part: FavoriteRecipe.objects.create / ShoppingItem.objects.create;
\* a refusal by the database is an exception the handler does not catch
member_create(p) ==
    /\ req[p].pc = "member_create"
    /\ LET k == req[p].kind
           u == req[p].user
           r == req[p].recipe IN
       IF MemberInsertRefused(k, u, r)
       THEN /\ Reply(p, Response(k, 500, "IntegrityError", u, r))
            /\ UNCHANGED <<subs, lastCart, written, backend, recipes, nextId, recipeTags, lineItems, member>>
       ELSE /\ member' = [member EXCEPT ![k] = @ (+) SetToBag({<<u, r>>})]
            /\ lastCart' = IF k = "shopping_cart" THEN <<u, "POST", r>> ELSE lastCart
            /\ Reply(p, Response(k, 201, "", u, r))
            /\ UNCHANGED <<subs, written, backend, recipes, nextId, recipeTags, lineItems>>

\* DELETE, second part: favorite.delete() / shopping_item.delete() on the queryset
member_delete(p) ==
    /\ req[p].pc = "member_delete"
    /\ LET k == req[p].kind
           u == req[p].user
           r == req[p].recipe IN
       /\ member' = [member EXCEPT ![k] = MemberDelete(@, u, r)]
       /\ lastCart' = IF k = "shopping_cart" THEN <<u, "DELETE", r>> ELSE lastCart
       /\ Reply(p, Response(k, 204, "", u, r))
    /\ UNCHANGED <<subs, written, backend, recipes, nextId, recipeTags, lineItems>>

(* ---------------------------- subscriptions ---------------------------- *)
\* ids a subscribe request may name: the users' and one that is no user
AuthorIds == 1..(NumUsers + 1)

\* a test that never finds the subscriber to be the author
IsSelfNever(u, a) == FALSE

\* UserViewSet.subscribe: request.user == author
IsSelf(u, a) == u = a

\* the exists() test with subscriber and author swapped
SubExistsSwapped(s, a) == BagIn(<<a, s>>, subs)

\* UserSubscription.objects.filter(subscriber=..., author=...).exists()
SubExists(s, a) == BagIn(<<s, a>>, subs)

\* UserSubscription.objects.create: refused by the unique constraint
\* (subscriber, author)
SubInsertRefused(s, a) == BagIn(<<s, a>>, subs)

\* SubscribeSerializer.get_recipes_count: obj.recipes.count()
get_recipes_count(a) == Cardinality({r \in DOMAIN recipes : recipes[r].author = a})

\* SubscribeSerializer.get_is_subscribed for an authenticated viewer
get_is_subscribed(table, viewer, a) == BagIn(<<viewer, a>>, table)

\* SubscribeSerializer(obj).data, the fields that depend on the store
SubscribeData(table, viewer, a) ==
    [id |-> a, is_subscribed |-> get_is_subscribed(table, viewer, a),
     recipes_count |-> get_recipes_count(a)]

\* UserViewSet.subscribe, first part: get_object_or_404(User, id=pk), the
\* self-subscription test and the exists() test of the request's method
subscribe(p, c) ==
    /\ CanBegin(p, c)
    /\ \E u \in Users, a \in AuthorIds, method \in {"POST", "DELETE"} :
        LET Answer(status, detail) ==
                /\ Reply(p, [Response("subscribe", status, detail, u, 0) EXCEPT !.author = a])
                /\ UNCHANGED <<subs, lastCart, written, backend, recipes, nextId, recipeTags,
                               lineItems, member>>
            GoOn(pc) ==
                /\ req' = [req EXCEPT ![p] = [pc |-> pc, user |-> u, author |-> a]]
                /\ resp' = [resp EXCEPT ![p] = NoResp]
                /\ UNCHANGED <<subs, lastCart, written, backend, recipes, nextId, recipeTags,
                               lineItems, member>>
        IN IF a \notin Users THEN Answer(404, "NotFound")
           ELSE IF method = "POST"
           THEN IF IsSelf(u, a) THEN Answer(400, "SelfSubscription")
                ELSE IF SubExists(u, a) THEN Answer(400, "AlreadySubscribed")
                ELSE GoOn("subscribe_create")
           ELSE IF ~SubExists(u, a) THEN Answer(400, "NotSubscribed")
                ELSE GoOn("subscribe_delete")

\* POST, second part: UserSubscription.objects.create and the response built
\* by SubscribeSerializer(author)
subscribe_create(p) ==
    /\ req[p].pc = "subscribe_create"
    /\ LET u == req[p].user
           a == req[p].author IN
       IF SubInsertRefused(u, a)
       THEN /\ Reply(p, [Response("subscribe", 500, "IntegrityError", u, 0) EXCEPT !.author = a])
            /\ UNCHANGED subs
       ELSE /\ subs' = subs (+) SetToBag({<<u, a>>})
            /\ Reply(p, [Response("subscribe", 201, "", u, 0)
                            EXCEPT !.author = a,
                                   !.entries = SetToBag({SubscribeData(subs', u, a)})])
    /\ UNCHANGED <<lastCart, written, backend, recipes, nextId, recipeTags, lineItems, member>>

\* DELETE, second part: subscription.delete() on the queryset
subscribe_delete(p) ==
    /\ req[p].pc = "subscribe_delete"
    /\ LET u == req[p].user
           a == req[p].author IN
       /\ subs' = [e \in (BagToSet(subs) \ {<<u, a>>}) |-> subs[e]]
       /\ Reply(p, [Response("subscribe", 204, "", u, 0) EXCEPT !.author = a])
    /\ UNCHANGED <<lastCart, written, backend, recipes, nextId, recipeTags, lineItems, member>>

\* User.objects.filter(subscriptions__subscriber=request.user): "subscriptions"
\* is the related name of UserSubscription.subscriber, so the join pairs each
\* user with the rows in which that user is the subscriber, and the filter keeps
\* the rows whose subscriber is the caller; one user per row of the join
SubscriptionsQuery(u) ==
    LET joined == {j \in Users \X BagToSet(subs) : j[2][1] = j[1]}
    IN {[user |-> j[1], row |-> j[2]] : j \in {x \in joined : x[2][1] = u}}

\* UserViewSet.subscriptions: SubscribeSerializer(queryset, many=True).data
subscriptions(p, c) ==
    /\ CanBegin(p, c)
    /\ \E u \in Users :
        LET rows == SubscriptionsQuery(u)
            listed == {q.user : q \in rows}
            Copies(v) == Cardinality({q \in rows : q.user = v})
        IN Reply(p, [Response("subscriptions", 200, "", u, 0)
                        EXCEPT !.entries =
                            [d \in {SubscribeData(subs, u, v) : v \in listed} |-> Copies(d.id)]])
    /\ UNCHANGED <<subs, lastCart, written, backend, recipes, nextId, recipeTags, lineItems, member>>

(* --------------------------- recipe projection ------------------------- *)
\* who looks at a recipe: a user, request.user.is_anonymous (0), or a serializer
\* context without a request (-1)
Anonymous == 0
NoRequest == 0 - 1
Viewers == Users \cup {Anonymous, NoRequest}

\* a flag that tells whether any user has the recipe in the set
get_is_favorited_by_anyone(viewer, r) ==
    IF viewer = NoRequest \/ viewer = Anonymous THEN FALSE
    ELSE \E v \in Users : BagIn(<<v, r>>, member["favorite"])

\* RecipeSerializer.get_is_favorited
get_is_favorited(viewer, r) ==
    IF viewer = NoRequest \/ viewer = Anonymous THEN FALSE
    ELSE BagIn(<<viewer, r>>, member["favorite"])

\* RecipeSerializer.get_is_in_shopping_cart
get_is_in_shopping_cart(viewer, r) ==
    IF viewer = NoRequest \/ viewer = Anonymous THEN FALSE
    ELSE BagIn(<<viewer, r>>, member["shopping_cart"])

\* GET /recipes/{id}/: get_object, then RecipeSerializer(instance).data; the
\* viewer NoRequest stands for the two flag methods evaluated by a serializer
\* that was built without a request in its context
retrieve(p, c) ==
    /\ CanBegin(p, c)
    /\ \E viewer \in Viewers, r \in RecipeIds :
        IF r \notin DOMAIN recipes
        THEN Reply(p, Response("retrieve", 404, "NotFound", viewer, r))
        ELSE Reply(p, [Response("retrieve", 200, "", viewer, r)
                          EXCEPT !.is_favorited = get_is_favorited(viewer, r),
                                 !.is_in_shopping_cart = get_is_in_shopping_cart(viewer, r)])
    /\ UNCHANGED <<subs, lastCart, written, backend, recipes, nextId, recipeTags, lineItems, member>>

(* ------------------------------- export -------------------------------- *)
RECURSIVE SumTotal(_)
\* Sum('amount') over joined rows, a row that the join yields n times counting n times
SumTotal(rows) ==
    IF rows = {} THEN 0
    ELSE LET x == CHOOSE y \in rows : TRUE
         IN x.amount * x.copies + SumTotal(rows \ {x})

\* the join without the filter on the user: line items of every recipe that is
\* in some user's cart
CartJoinAnyUser(u) ==
    {[ingredient |-> li.ingredient, recipe |-> li.recipe, amount |-> li.amount,
      copies |-> 1] :
        li \in {x \in lineItems :
                   \E v \in Users : BagIn(<<v, x.recipe>>, member["shopping_cart"])}}

\* RecipeIngredient.objects.filter(recipe__in_users_shopping_list__user=user):
\* the line items joined with the user's ShoppingItem rows on the recipe
CartJoin(u) ==
    {[ingredient |-> li.ingredient, recipe |-> li.recipe, amount |-> li.amount,
      copies |-> CopiesIn(<<u, li.recipe>>, member["shopping_cart"])] :
        li \in {x \in lineItems : BagIn(<<u, x.recipe>>, member["shopping_cart"])}}

\* .values('ingredient__name', 'ingredient__measurement_unit'): the grouping key
GroupKey(row) == <<IngredientName(row.ingredient), IngredientUnit(row.ingredient)>>

\* .annotate(total=Sum('amount')) and the loop over the groups: one body line
\* "<name> (<unit>) - <total>" for each group, as a bag of <<name, unit, total>>
ShoppingList(u) ==
    LET rows == CartJoin(u)
        keys == {GroupKey(row) : row \in rows}
    IN SetToBag({<<k[1], k[2], SumTotal({row \in rows : GroupKey(row) = k})>> : k \in keys})

\* an export that empties the caller's cart once the list is built
download_shopping_cart_clearing(p, c) ==
    /\ CanBegin(p, c)
    /\ \E u \in Users :
        /\ Reply(p, [Response("download_shopping_cart", 200, "header", u, 0)
                       EXCEPT !.lines = ShoppingList(u)])
        /\ member' = [member EXCEPT !["shopping_cart"] =
                         [e \in {x \in BagToSet(@) : x[1] # u} |-> @[e]]]
    /\ UNCHANGED <<subs, lastCart, written, backend, recipes, nextId, recipeTags, lineItems>>

\* RecipeViewSet.download_shopping_cart: the header line and the body lines
download_shopping_cart(p, c) ==
    /\ CanBegin(p, c)
    /\ \E u \in Users :
        Reply(p, [Response("download_shopping_cart", 200, "header", u, 0)
                    EXCEPT !.lines = ShoppingList(u)])
    /\ UNCHANGED <<subs, lastCart, written, backend, recipes, nextId, recipeTags, lineItems, member>>

(* --------------------------- specifications ---------------------------- *)
\* the recipe requests, handled one at a time
Next ==
    \E p \in Workers :
        \/ create(p, FALSE)
        \/ create_tags(p)
        \/ create_bulk(p)
        \/ partial_update(p, FALSE)
        \/ update_delete(p)
        \/ update_bulk(p)
        \/ update_save(p)
        \/ update(p, FALSE)
        \/ destroy(p, FALSE)

Spec == Init /\ [][Next]_vars

\* a store with every recipe id in use, each recipe as a valid create leaves it:
\* some of the catalog's ingredients, with amounts that differ between recipes
CartAmount(r, i) == r + i - 1

\* choice: the ingredients of each recipe
StoreWith(choice) ==
    /\ backend = "postgresql"
    /\ recipes = [r \in RecipeIds |->
            [author |-> ((r - 1) % NumUsers) + 1, name |-> NameMaxLength, cooking_time |-> 1]]
    /\ nextId = MaxRecipes + 1
    /\ recipeTags = {<<r, 1>> : r \in RecipeIds}
    /\ lineItems = {[recipe |-> r, ingredient |-> i, amount |-> CartAmount(r, i)] :
                        r \in RecipeIds, i \in IngredientIds}
                   \ {li \in [recipe : RecipeIds, ingredient : IngredientIds,
                              amount : 1..(MaxRecipes + NumIngredients)] :
                        li.ingredient \notin choice[li.recipe]}
    /\ member = [k \in Kinds |-> EmptyBag]
    /\ req = [p \in Workers |-> Idle]
    /\ resp = [p \in Workers |-> NoResp]
    /\ written = [r \in RecipeIds |-> "create"]
    /\ subs = EmptyBag
    /\ lastCart = <<>>

InitCart == \E choice \in [RecipeIds -> (SUBSET IngredientIds) \ {{}}] : StoreWith(choice)

InitRace == StoreWith([r \in RecipeIds |-> IngredientIds])

\* the membership requests, the export and recipe deletion, one request at a time
NextCart ==
    \E p \in Workers :
        \/ favorite(p, FALSE)
        \/ shopping_cart(p, FALSE)
        \/ member_create(p)
        \/ member_delete(p)
        \/ download_shopping_cart(p, FALSE)
        \/ destroy(p, FALSE)

SpecCart == InitCart /\ [][NextCart]_vars

\* the favorite requests of several workers, their statements interleaved
NextRace ==
    \E p \in Workers :
        \/ favorite(p, TRUE)
        \/ member_create(p)
        \/ member_delete(p)

SpecRace == InitRace /\ [][NextRace]_vars

\* the membership requests and the recipe projection, one request at a time
NextView ==
    \E p \in Workers :
        \/ favorite(p, FALSE)
        \/ shopping_cart(p, FALSE)
        \/ member_create(p)
        \/ member_delete(p)
        \/ retrieve(p, FALSE)

SpecView == InitRace /\ [][NextView]_vars

\* a store with one recipe of user 1, as a valid create leaves it, that every
\* user has put into the favorites and into the cart
InitOwner ==
    /\ backend \in Backends
    /\ recipes = (1 :> [author |-> 1, name |-> NameMaxLength, cooking_time |-> 1])
    /\ nextId = 2
    /\ recipeTags = {<<1, 1>>}
    /\ lineItems = {[recipe |-> 1, ingredient |-> 1, amount |-> 1]}
    /\ member = [k \in Kinds |-> SetToBag({<<u, 1>> : u \in Users})]
    /\ req = [p \in Workers |-> Idle]
    /\ resp = [p \in Workers |-> NoResp]
    /\ written = (1 :> "create")
    /\ subs = EmptyBag
    /\ lastCart = <<>>

\* the requests that change or delete a recipe, by any user, one at a time
NextOwner ==
    \E p \in Workers :
        \/ partial_update(p, FALSE)
        \/ update_delete(p)
        \/ update_bulk(p)
        \/ update_save(p)
        \/ update(p, FALSE)
        \/ destroy(p, FALSE)

SpecOwner == InitOwner /\ [][NextOwner]_vars

\* the subscription requests with recipe creation and deletion, one request at a time
NextSubs ==
    \E p \in Workers :
        \/ subscribe(p, FALSE)
        \/ subscribe_create(p)
        \/ subscribe_delete(p)
        \/ subscriptions(p, FALSE)
        \/ create(p, FALSE)
        \/ create_tags(p)
        \/ create_bulk(p)
        \/ destroy(p, FALSE)

SpecSubs == Init /\ [][NextSubs]_vars

\* one partial update per worker, the statements of the workers interleaved
NextUpdateRace ==
    \E p \in Workers :
        \/ resp[p].op = "none" /\ partial_update(p, TRUE)
        \/ update_delete(p)
        \/ update_bulk(p)
        \/ update_save(p)

SpecUpdateRace == InitOwner /\ [][NextUpdateRace]_vars

\* the membership requests, the export and recipe deletion over the store in
\* which every recipe has every ingredient
SpecExport == InitRace /\ [][NextCart]_vars

(* ------------------------------- claims -------------------------------- *)
AllIdle == \A p \in Workers : req[p].pc = "idle"

\* worker p ends a request that had already written to the store with a server error
FailsMidway(p) ==
    /\ req[p].pc # "idle"
    /\ req'[p].pc = "idle"
    /\ resp'[p].status >= 500

\* C5: recipe create and update are all-or-nothing: when a step of the multi-row
\* write fails after earlier steps were applied, the store afterwards equals the
\* store before the request.
C5_AllOrNothing ==
    [][\A p \in Workers : FailsMidway(p) => store' = req[p].before]_vars

\* C6: between requests every stored recipe has at least one line item, every
\* line item references a catalog ingredient and has an amount of at least 1, and
\* no two line items of a recipe share an ingredient.
C6_RecipeInvariant ==
    AllIdle =>
        /\ \A r \in DOMAIN recipes : ItemsOf(lineItems, r) # {}
        /\ \A li \in lineItems : li.ingredient \in IngredientIds /\ li.amount >= 1
        /\ \A a, b \in lineItems :
              (a.recipe = b.recipe /\ a.ingredient = b.ingredient) => a = b

C8_DuplicateIngredientRejected ==
    \A p \in Workers :
        "dup_ingredients" \in resp[p].flags => resp[p].status = 400

\* C8, for the requests that RecipeCreateSerializer validates (create and the
\* partial update): a draft that repeats an ingredient id is answered with a
\* ValidationError of the field validation.
C8_RejectedByCreateSerializer ==
    \A p \in Workers :
        (resp[p].op \in {"create", "partial_update"} /\ "dup_ingredients" \in resp[p].flags)
            => (resp[p].status = 400 /\ resp[p].detail = "fields")

\* C9: an update with a valid draft, on either update route, leaves the recipe
\* with exactly the line items and the tags of that draft, whatever an earlier
\* update or the create had stored.
C9_UpdateReplaces ==
    \A p \in Workers :
        (/\ resp[p].op \in {"update", "partial_update"}
         /\ "valid_draft" \in resp[p].flags)
            => /\ resp[p].status = 200
               /\ resp[p].body = resp[p].sent
               /\ resp[p].bodyTags = resp[p].tags

\* C9, for the route that reaches RecipeCreateSerializer.update: an update that
\* succeeds leaves exactly the line items and the tags of its draft.
C9_PartialUpdateReplaces ==
    \A p \in Workers :
        (resp[p].op = "partial_update" /\ resp[p].status = 200) =>
            /\ resp[p].body = resp[p].sent
            /\ resp[p].bodyTags = resp[p].tags

\* an update answered after an earlier update of the same recipe, the two with
\* disjoint ingredient ids and the earlier one with a tag the later one drops
C9_PartialUpdateWitness ==
    \E p \in Workers :
        /\ resp[p].op = "partial_update" /\ resp[p].status = 200
        /\ resp[p].hadFrom = "partial_update"
        /\ resp[p].had # {}
        /\ {x[1] : x \in resp[p].had} \cap {x[1] : x \in resp[p].sent} = {}
        /\ resp[p].hadTags \ resp[p].tags # {}

\* C10: on both update routes a payload that omits ingredients or omits tags is
\* answered with a ValidationError (status 400).
C10_OmittedKeysRejected ==
    \A p \in Workers :
        (/\ resp[p].op \in {"update", "partial_update"}
         /\ resp[p].flags \cap {"no_ingredients", "no_tags"} # {})
            => resp[p].status = 400

RECURSIVE AmountSum(_)
AmountSum(items) ==
    IF items = {} THEN 0
    ELSE LET x == CHOOSE y \in items : TRUE
         IN x.amount + AmountSum(items \ {x})

Pairs == Users \X RecipeIds

\* C1: for every user, the export has exactly one body line for each (ingredient
\* name, unit) pair among the line items of the recipes in the user's cart, with
\* the sum of those line items' amounts, and no other line.
C1_ExportGroupsAndSums ==
    \A u \in Users :
        LET cart == {r \in RecipeIds : BagIn(<<u, r>>, member["shopping_cart"])}
            items == {li \in lineItems : li.recipe \in cart}
            NameUnit(li) == <<IngredientName(li.ingredient), IngredientUnit(li.ingredient)>>
            lines == ShoppingList(u)
        IN /\ \A li \in items :
                LET found == {l \in BagToSet(lines) : <<l[1], l[2]>> = NameUnit(li)}
                IN /\ Cardinality(found) = 1
                   /\ \A l \in found :
                        /\ CopiesIn(l, lines) = 1
                        /\ l[3] = AmountSum({x \in items : NameUnit(x) = NameUnit(li)})
           /\ \A l \in BagToSet(lines) : \E li \in items : <<l[1], l[2]>> = NameUnit(li)

\* an export answered for a user whose cart holds two recipes that share Flour:
\* one Flour line with the two amounts added up, while another user has a cart too
C1_Witness ==
    \E p \in Workers, u \in Users :
        /\ resp[p].op = "download_shopping_cart" /\ resp[p].user = u
        /\ resp[p].lines = ShoppingList(u)
        /\ Cardinality({r \in RecipeIds : BagIn(<<u, r>>, member["shopping_cart"])}) = 2
        /\ BagIn(<<"Flour", "g", CartAmount(1, 1) + CartAmount(2, 1)>>, resp[p].lines)
        /\ \E v \in Users \ {u}, r \in RecipeIds : BagIn(<<v, r>>, member["shopping_cart"])

\* the pair and the table a membership answer or request in flight is about
RespPair(p) == <<resp'[p].user, resp'[p].recipe>>
ReqPair(q) == <<q.user, q.recipe>>

\* C2: an add on a stored pair is answered with Conflict and leaves exactly one
\* row of the pair; an add goes on to insert only when the pair is absent, and
\* then inserts exactly one row and succeeds.
C2_AddContract ==
    [][\A p \in Workers :
        /\ (resp'[p] # resp[p] /\ resp'[p].detail = "AlreadyInSet") =>
              /\ resp'[p].status = 400
              /\ CopiesIn(RespPair(p), member'[resp'[p].op]) = 1
              /\ member' = member
        /\ (req[p].pc = "idle" /\ req'[p].pc = "member_create") =>
              /\ ~BagIn(ReqPair(req'[p]), member[req'[p].kind])
              /\ member' = member
        /\ (req[p].pc = "member_create" /\ req'[p].pc = "idle") =>
              /\ resp'[p].status = 201
              /\ \A k \in Kinds, e \in Pairs :
                    CopiesIn(e, member'[k]) =
                        CopiesIn(e, member[k])
                        + (IF k = req[p].kind /\ e = ReqPair(req[p]) THEN 1 ELSE 0)
              /\ CopiesIn(ReqPair(req[p]), member'[req[p].kind]) = 1
      ]_vars

\* the second of two adds of the same pair has been answered
C2_Witness ==
    \E p \in Workers :
        /\ resp[p].detail = "AlreadyInSet"
        /\ CopiesIn(<<resp[p].user, resp[p].recipe>>, member[resp[p].op]) = 1

\* C3: under concurrent adds no pair is ever stored twice and no add is answered
\* by a rejection other than Conflict.
C3_ConcurrentAddsOneConflict ==
    /\ \A k \in Kinds, e \in Pairs : CopiesIn(e, member[k]) <= 1
    /\ \A p \in Workers : resp[p].op \in Kinds => resp[p].status \in {201, 204, 400, 404}

\* C4: a remove on an absent pair is answered with NotInSet (status 400) and
\* changes no membership row; a remove goes on to delete only when the pair is
\* stored, and then deletes exactly that row.
C4_RemoveContract ==
    [][\A p \in Workers :
        /\ (resp'[p] # resp[p] /\ resp'[p].detail = "NotInSet") =>
              /\ resp'[p].status = 400
              /\ ~BagIn(RespPair(p), member[resp'[p].op])
              /\ member' = member
        /\ (req[p].pc = "idle" /\ req'[p].pc = "member_delete") =>
              /\ BagIn(ReqPair(req'[p]), member[req'[p].kind])
              /\ member' = member
        /\ (req[p].pc = "member_delete" /\ req'[p].pc = "idle") =>
              /\ resp'[p].status = 204
              /\ CopiesIn(ReqPair(req[p]), member[req[p].kind]) = 1
              /\ \A k \in Kinds, e \in Pairs :
                    CopiesIn(e, member'[k]) =
                        IF k = req[p].kind /\ e = ReqPair(req[p]) THEN 0
                        ELSE CopiesIn(e, member[k])
      ]_vars

\* a remove of an absent pair has been answered while other rows are stored
C4_Witness ==
    \E p \in Workers :
        /\ resp[p].detail = "NotInSet"
        /\ \E r \in RecipeIds \ {resp[p].recipe} : BagIn(<<resp[p].user, r>>, member[resp[p].op])
        /\ \E u \in Users \ {resp[p].user} : BagIn(<<u, resp[p].recipe>>, member[resp[p].op])

\* the recipes in a user's shopping cart
CartOf(u) == {r \in RecipeIds : BagIn(<<u, r>>, member["shopping_cart"])}

\* the body lines of a recipe exported on its own
LinesOf(r) ==
    SetToBag({<<IngredientName(li.ingredient), IngredientUnit(li.ingredient), li.amount>> :
                li \in ItemsOf(lineItems, r)})

\* C16: every line item, favorite entry and cart entry references a stored
\* recipe, so none of a deleted recipe remains for any user, and no export has a
\* line for a user whose cart holds no stored recipe.
C16_CascadeOnDelete ==
    /\ \A li \in lineItems : li.recipe \in DOMAIN recipes
    /\ \A k \in Kinds : \A e \in BagToSet(member[k]) : e[2] \in DOMAIN recipes
    /\ \A p \in Workers :
          (resp[p].op = "destroy" /\ resp[p].status = 204) =>
              /\ ItemsOf(lineItems, resp[p].recipe) = {}
              /\ \A k \in Kinds, u \in Users : ~Exists(k, u, resp[p].recipe)
    /\ \A u \in Users :
          (\A r \in CartOf(u) : r \notin DOMAIN recipes) => ShoppingList(u) = EmptyBag

\* a recipe with line items that was in a favorite set and in a cart has been
\* deleted by its author, while another recipe is still in a cart
C16_Witness ==
    \E p \in Workers :
        /\ resp[p].op = "destroy" /\ resp[p].status = 204
        /\ resp[p].flags = Kinds
        /\ resp[p].had # {}
        /\ resp[p].recipe \notin DOMAIN recipes
        /\ \E u \in Users : CartOf(u) # {}

\* C17: the export follows the cart: a recipe the user added last is in the
\* cart and a recipe the user removed last is not; an export is never an error,
\* has no body line when the cart is empty, and has exactly the recipe's line
\* items, with their amounts, when the cart holds one recipe.
C17_ExportFollowsCart ==
    /\ (lastCart # <<>> /\ lastCart[3] \in DOMAIN recipes) =>
          (lastCart[3] \in CartOf(lastCart[1]) <=> lastCart[2] = "POST")
    /\ \A p \in Workers :
          resp[p].op = "download_shopping_cart" =>
              LET u == resp[p].user IN
              /\ resp[p].status = 200
              /\ CartOf(u) = {} => resp[p].lines = EmptyBag
              /\ \A r \in RecipeIds : CartOf(u) = {r} => resp[p].lines = LinesOf(r)

\* an export answered with the header alone right after the user removed the
\* only recipe of the cart, the recipe still stored and in another user's cart
C17_Witness ==
    \E p \in Workers, u \in Users, r \in DOMAIN recipes :
        /\ resp[p].op = "download_shopping_cart" /\ resp[p].user = u
        /\ resp[p].lines = EmptyBag
        /\ lastCart = <<u, "DELETE", r>>
        /\ ItemsOf(lineItems, r) # {}
        /\ \E v \in Users \ {u} : r \in CartOf(v)

\* C18: a projection of a stored recipe always succeeds; for an anonymous
\* viewer, or without a request, both flags are false; for a user they tell
\* whether that user's own favorite row and cart row of the recipe are stored.
C18_ViewerFlags ==
    \A p \in Workers :
        resp[p].op = "retrieve" =>
            LET u == resp[p].user
                r == resp[p].recipe
            IN /\ resp[p].status = (IF r \in DOMAIN recipes THEN 200 ELSE 404)
               /\ resp[p].is_favorited =
                    (u \in Users /\ CopiesIn(<<u, r>>, member["favorite"]) > 0)
               /\ resp[p].is_in_shopping_cart =
                    (u \in Users /\ CopiesIn(<<u, r>>, member["shopping_cart"]) > 0)

\* a user sees a recipe that is in the user's cart and in another user's
\* favorites but not in the user's own, and an anonymous viewer sees it too
C18_Witness ==
    \E p \in Workers, u \in Users, v \in Users :
        /\ u # v
        /\ resp[p].op = "retrieve" /\ resp[p].status = 200 /\ resp[p].user = u
        /\ ~resp[p].is_favorited /\ resp[p].is_in_shopping_cart
        /\ BagIn(<<v, resp[p].recipe>>, member["favorite"])

\* an anonymous viewer has been answered for a recipe that is in a user's
\* favorites and in a user's cart
C18_AnonymousWitness ==
    \E p \in Workers :
        /\ resp[p].op = "retrieve" /\ resp[p].status = 200 /\ resp[p].user = Anonymous
        /\ \E v \in Users : BagIn(<<v, resp[p].recipe>>, member["favorite"])
        /\ \E v \in Users : BagIn(<<v, resp[p].recipe>>, member["shopping_cart"])

\* C15: only the author changes a recipe: a request answered with a permission
\* error leaves the recipe row, its tags, its line items and the favorite and
\* cart entries as they were; a request goes on to write only for the recipe's
\* author; and every step that changes the store belongs to a request of the
\* author of the recipe it is about.
C15_AuthorOnly ==
    [][\A p \in Workers :
        /\ (resp'[p] # resp[p] /\ resp'[p].status = 403) => store' = store
        /\ (req[p].pc = "idle" /\ req'[p].pc # "idle") =>
              /\ req'[p].recipe \in DOMAIN recipes
              /\ recipes[req'[p].recipe].author = req'[p].user
        /\ (resp'[p] # resp[p] /\ resp'[p].op = "destroy" /\ resp'[p].status = 204) =>
              recipes[resp'[p].recipe].author = resp'[p].user
        /\ store' # store =>
              \E q \in Workers :
                 \/ req[q].pc # "idle"
                 \/ req'[q].pc # "idle"
                 \/ (resp'[q] # resp[q] /\ resp'[q].op = "destroy" /\ resp'[q].status = 204)
      ]_vars

\* an update or delete by a user who is not the author has been refused, the
\* recipe keeping its line items and its favorite and cart entries
C15_Witness ==
    \E p \in Workers :
        /\ resp[p].op \in {"update", "partial_update", "destroy"}
        /\ resp[p].status = 403
        /\ resp[p].recipe \in DOMAIN recipes
        /\ ItemsOf(lineItems, resp[p].recipe) # {}
        /\ \A k \in Kinds : \E u \in Users : Exists(k, u, resp[p].recipe)

\* C19: the bound of the recipe name is 256: a create whose draft is valid
\* but for a name of exactly 256 characters succeeds and stores that name, and
\* one whose name has 257 characters is answered with a ValidationError.
C19_NameBound256 ==
    \A p \in Workers :
        (resp[p].op = "create" /\ "valid_but_name" \in resp[p].flags) =>
            /\ "name_at_limit" \in resp[p].flags =>
                  /\ resp[p].status = 201
                  /\ resp[p].recipe \in DOMAIN recipes =>
                        recipes[resp[p].recipe].name = ValidateNameLimit
            /\ "name_over_limit" \in resp[p].flags => resp[p].status = 400

\* C19, the bound the code enforces: a draft valid but for its name is never
\* stored with a name longer than the column of the model, and a name beyond
\* that is answered with a ValidationError of the field validation.
C19_ModelBoundApplies ==
    /\ \A r \in DOMAIN recipes : recipes[r].name <= NameMaxLength
    /\ \A p \in Workers :
          (/\ resp[p].op = "create" /\ "valid_but_name" \in resp[p].flags
           /\ resp[p].flags \cap {"name_at_limit", "name_over_limit"} # {})
              => (resp[p].status = 400 /\ resp[p].detail = "fields")

\* C20: a draft whose tags list repeats a tag id is answered, on create and on
\* every update route, with a ValidationError (status 400).
C20_DuplicateTagRejected ==
    \A p \in Workers :
        "dup_tags" \in resp[p].flags => resp[p].status = 400

\* C20, for the requests that RecipeCreateSerializer validates (create and the
\* partial update): a draft that repeats a tag id is answered with a
\* ValidationError, and no stored recipe was written from such a draft.
C20_RejectedByCreateSerializer ==
    \A p \in Workers :
        /\ (resp[p].op \in {"create", "partial_update"} /\ "dup_tags" \in resp[p].flags)
              => (resp[p].status = 400 /\ resp[p].detail \in {"tags", "fields"})
        /\ req[p].pc # "idle" => "dup_tags" \notin req[p].flags

\* the edge a subscription answer or request in flight is about
RespEdge(p) == <<resp'[p].user, resp'[p].author>>
ReqEdge(q) == <<q.user, q.author>>
Edges == Users \X Users

\* C11: a subscribe request of a user to that same user is answered with a
\* ValidationError (status 400) and never goes on to insert, whatever rows are
\* stored, and no stored edge has its subscriber as its author.
C11_NoSelfSubscription ==
    /\ \A u \in Users : ~BagIn(<<u, u>>, subs)
    /\ \A p \in Workers :
          /\ req[p].pc = "subscribe_create" => req[p].user # req[p].author
          /\ (resp[p].op = "subscribe" /\ resp[p].status = 201) => resp[p].user # resp[p].author
          /\ resp[p].detail = "SelfSubscription" =>
                (resp[p].status = 400 /\ resp[p].user = resp[p].author)

\* a self-subscription has been refused for a user who follows someone and is
\* followed
C11_Witness ==
    \E p \in Workers :
        /\ resp[p].detail = "SelfSubscription"
        /\ \E a \in Users : BagIn(<<resp[p].user, a>>, subs)
        /\ \E s \in Users : BagIn(<<s, resp[p].user>>, subs)

\* C12: a subscribe on a stored edge is answered with Conflict and an
\* unsubscribe on an absent edge with the not-subscribed error, both leaving
\* the edges as they were; a request goes on to insert only an absent edge and
\* to delete only a stored one; no edge is ever stored twice.
C12_SubscribeContract ==
    [][/\ \A e \in Edges : CopiesIn(e, subs') <= 1
       /\ \A p \in Workers :
           /\ (resp'[p] # resp[p] /\ resp'[p].detail = "AlreadySubscribed") =>
                 /\ resp'[p].status = 400
                 /\ CopiesIn(RespEdge(p), subs) = 1
                 /\ subs' = subs
           /\ (resp'[p] # resp[p] /\ resp'[p].detail = "NotSubscribed") =>
                 /\ resp'[p].status = 400
                 /\ ~BagIn(RespEdge(p), subs)
                 /\ subs' = subs
           /\ (req[p].pc = "idle" /\ req'[p].pc = "subscribe_create") =>
                 /\ ~BagIn(ReqEdge(req'[p]), subs)
                 /\ subs' = subs
           /\ (req[p].pc = "idle" /\ req'[p].pc = "subscribe_delete") =>
                 /\ BagIn(ReqEdge(req'[p]), subs)
                 /\ subs' = subs
           /\ (req[p].pc = "subscribe_create" /\ req'[p].pc = "idle") =>
                 /\ resp'[p].status = 201
                 /\ \A e \in Edges :
                       CopiesIn(e, subs') =
                           CopiesIn(e, subs) + (IF e = ReqEdge(req[p]) THEN 1 ELSE 0)
           /\ (req[p].pc = "subscribe_delete" /\ req'[p].pc = "idle") =>
                 /\ resp'[p].status = 204
                 /\ \A e \in Edges :
                       CopiesIn(e, subs') =
                           IF e = ReqEdge(req[p]) THEN 0 ELSE CopiesIn(e, subs)
      ]_vars

\* the second subscribe of a stored edge has been answered, the opposite edge
\* not being stored
C12_Witness ==
    \E p \in Workers :
        /\ resp[p].detail = "AlreadySubscribed"
        /\ CopiesIn(<<resp[p].user, resp[p].author>>, subs) = 1
        /\ ~BagIn(<<resp[p].author, resp[p].user>>, subs)

\* an unsubscribe of an absent edge has been answered while the opposite edge
\* is stored
C12_NotSubscribedWitness ==
    \E p \in Workers :
        /\ resp[p].detail = "NotSubscribed"
        /\ ~BagIn(<<resp[p].user, resp[p].author>>, subs)
        /\ BagIn(<<resp[p].author, resp[p].user>>, subs)

\* the authors a user follows
Following(s) == {a \in Users : BagIn(<<s, a>>, subs)}

\* C13: the listing of a user's subscriptions has exactly one entry for each
\* author the user follows and no other entry, and every entry is flagged as
\* subscribed.
C13_ListsFollowedAuthors ==
    \A p \in Workers :
        resp[p].op = "subscriptions" =>
            /\ {d.id : d \in BagToSet(resp[p].entries)} = Following(resp[p].user)
            /\ \A d \in BagToSet(resp[p].entries) :
                  CopiesIn(d, resp[p].entries) = 1 /\ d.is_subscribed

\* C14: every author that a subscribe answer or a subscription listing is to
\* report appears in it with the number of recipes the author has in the store
\* at that moment.
C14_RecipesCountIsCurrent ==
    \A p \in Workers :
        /\ (resp[p].op = "subscribe" /\ resp[p].status = 201) =>
              \E d \in BagToSet(resp[p].entries) :
                  d.id = resp[p].author /\ d.recipes_count = get_recipes_count(d.id)
        /\ resp[p].op = "subscriptions" =>
              \A a \in Following(resp[p].user) :
                  \E d \in BagToSet(resp[p].entries) :
                      d.id = a /\ d.recipes_count = get_recipes_count(a)

\* C14, as far as the code computes it: each entry of a subscribe answer or of
\* a listing carries the number of recipes, at that moment, of the user the
\* entry is about.
C14_CountOfListedUser ==
    \A p \in Workers :
        resp[p].op \in {"subscribe", "subscriptions"} =>
            \A d \in BagToSet(resp[p].entries) : d.recipes_count = get_recipes_count(d.id)

\* a subscribe answer reporting an author who has a recipe
C14_CountWitness ==
    \E p \in Workers :
        /\ resp[p].op = "subscribe" /\ resp[p].status = 201
        /\ \E d \in BagToSet(resp[p].entries) : d.recipes_count > 0

\* every worker has answered a partial update whose draft passed validation
BothUpdatesDone ==
    /\ AllIdle
    /\ \A p \in Workers : resp[p].op = "partial_update" /\ resp[p].status \in {200, 500}

\* C21: when concurrent valid updates of one recipe have all finished, on a
\* database that accepts every validated amount, none of them ended in a
\* server error and the recipe's line items are exactly those of one of the
\* drafts: not a union or mixture, and not empty.
C21_ConcurrentUpdatesSerialize ==
    (backend = "sqlite" /\ BothUpdatesDone) =>
        /\ \A p \in Workers : resp[p].status = 200
        /\ \A p, q \in Workers :
              resp[p].recipe = resp[q].recipe =>
                  LET items == get_ingredients(lineItems, resp[p].recipe)
                  IN /\ items # {}
                     /\ \E w \in Workers : items = resp[w].sent

\* C21, the part that holds: after concurrent updates have finished the
\* recipe is never left without line items on such a database.
C21_NeverEmpty ==
    (backend = "sqlite" /\ BothUpdatesDone) =>
        \A p \in Workers : get_ingredients(lineItems, resp[p].recipe) # {}

\* C21, the ways it fails: all updates succeeded and the stored line items are
\* those of no single draft
C21_MixtureStored ==
    /\ backend = "sqlite" /\ BothUpdatesDone
    /\ \A p \in Workers : resp[p].status = 200
    /\ \A w \in Workers : get_ingredients(lineItems, resp[w].recipe) # resp[w].sent

\* C21, the ways it fails: an update ended in the uniqueness failure of its
\* bulk_create
C21_UniquenessFailure ==
    /\ backend = "sqlite" /\ BothUpdatesDone
    /\ \E p \in Workers : resp[p].status = 500 /\ resp[p].detail = "DatabaseError"

\* what a user's export may depend on: the user's own cart rows and the line
\* items of the recipes in that cart
ViewOf(u) ==
    [user |-> u,
     cart |-> [e \in {x \in BagToSet(member["shopping_cart"]) : x[1] = u} |->
                  CopiesIn(e, member["shopping_cart"])],
     items |-> {li \in lineItems : li.recipe \in CartOf(u)}]

\* the body lines computed from such a view alone: one line per (name, unit)
\* with the amounts added up
ExportFromView(view) ==
    LET NameUnit(li) == <<IngredientName(li.ingredient), IngredientUnit(li.ingredient)>>
        rows == {[li |-> li, amount |-> li.amount * view.cart[<<view.user, li.recipe>>]] :
                    li \in view.items}
    IN SetToBag({<<k[1], k[2], AmountSum({x \in rows : NameUnit(x.li) = k})>> :
                    k \in {NameUnit(li) : li \in view.items}})

\* C22: the export is a read-only function of the caller's own cart: answering
\* it changes no stored row; its lines are computed from the caller's cart rows
\* and the line items of the recipes in that cart alone; and a step that leaves
\* these unchanged, whatever it does to other users' carts or to anyone's
\* favorites, leaves the caller's export unchanged.
C22_ExportReadsOwnCartOnly ==
    [][/\ \A p \in Workers :
            (resp'[p] # resp[p] /\ resp'[p].op = "download_shopping_cart") =>
                /\ store' = store
                /\ subs' = subs
                /\ resp'[p].lines = ExportFromView(ViewOf(resp'[p].user))
       /\ \A u \in Users :
            /\ ShoppingList(u) = ExportFromView(ViewOf(u))
            /\ ViewOf(u)' = ViewOf(u) => ShoppingList(u)' = ShoppingList(u)
      ]_vars

\* an export with body lines answered for a user who has a favorite outside
\* the cart, while another user's cart holds a recipe that is not in this one
C22_Witness ==
    \E p \in Workers, u \in Users, v \in Users :
        /\ u # v
        /\ resp[p].op = "download_shopping_cart" /\ resp[p].user = u
        /\ resp[p].lines # EmptyBag
        /\ resp[p].lines = ShoppingList(u)
        /\ CartOf(v) \ CartOf(u) # {}
        /\ \E r \in RecipeIds \ CartOf(u) : BagIn(<<u, r>>, member["favorite"])

====
